---- MODULE Spec2Model ----
(***************************************************************************)
(* State-machine model of the GdmLiveAudio element of src/index.tsx: the   *)
(* inbound audio path (onmessage, decode, playback scheduling, barge-in),  *)
(* the capture path (startRecording, stopRecording, onaudioprocess), the   *)
(* session lifecycle (initSession, reset, transport callbacks) and the     *)
(* text passthrough (sendAiTextMessage).                                   *)
(*                                                                         *)
(* Every `await` of the source is a suspension point: the part of a        *)
(* handler before it and the part after it are separate atomic steps, and  *)
(* suspended handlers resume in any order.  Times are integers on the      *)
(* output AudioContext clock.                                              *)
(***************************************************************************)
EXTENDS Integers, Sequences, FiniteSets

\* ----------------------------------------------------------------- bounds
MaxTime == 2        \* the output clock runs 0..MaxTime
MaxDur == 2         \* audio chunk durations are 1..MaxDur
MaxMsgs == 2        \* inbound messages delivered over all sessions
MaxSessions == 2    \* connect attempts (the initial one included)
MaxStreams == 2     \* getUserMedia requests
MaxFrames == 1      \* audio frames passed to sendRealtimeInput
MaxFrameLen == 2    \* samples in a frame handed to the codec
MaxTimers == 1      \* pending setTimeout callbacks of one kind

VARIABLES
  \* playback (fields of GdmLiveAudio and the output AudioContext)
  clock,              \* outputAudioContext.currentTime
  nextStartTime,      \* this.nextStartTime
  sources,            \* this.sources: indices into started
  started,            \* every AudioBufferSourceNode started so far, in start order
  stopped,            \* indices of the nodes on which stop() was called
  decoding,           \* onmessage handlers suspended at `await decodeAudioData`
  \* session
  session,            \* this.session: a session id, 0 for null/undefined
  sessState,          \* per connect attempt: none/connecting/open/errored/closing/closed/failed
  connecting,         \* initSession calls suspended at `await client.live.connect`
  closing,            \* reset calls suspended at `await this.session.close()`
  \* capture
  isRecording, status, error,
  mediaStream, sourceNode, scriptProcessorNode,   \* ids, 0 for null
  liveTracks,         \* acquired microphone streams whose tracks are not stopped
  liveProcs,          \* script processors whose onaudioprocess handler is still set
  gum,                \* startRecording calls suspended at `await getUserMedia`
  nStreams,           \* getUserMedia requests made so far
  \* history, read by the properties only
  arrivals,           \* number of inbound messages delivered so far
  intrSeq,            \* highest arrival number of an interrupted message already applied
  intrSeqs,           \* arrival numbers of the messages that carried the interrupted flag
  intrAt,             \* Len(started) when the last interruption was applied, -1 before any
  t0, runFrom,        \* cursor value and Len(started) where the current gapless run began
  sentCount,          \* audio frames passed to sendRealtimeInput
  quiet,              \* stopRecording has returned and startRecording was not called since
  resets,             \* number of reset() calls so far
  startAfterReset,    \* startRecording has been called since the last reset() began
  refCursor,          \* the cursor of the run in which no malformed chunk arrives
  ev,                 \* the step just taken: [op, sess]
  \* frame codec
  pcmFrame,           \* the samples handed to createBlob
  wireBlob,           \* the blob createBlob returned, NoBlob before the call
  pcmOut,             \* the samples decoded from wireBlob
  \* lesson layer
  studentProgress,    \* this.studentProgress: per unit [status, correct, attempted]
  activeUnitId,       \* this.activeUnitId: a unit index, 0 for null
  currentView,        \* this.currentView
  game,               \* the mounted gdm-addition-game: [isAnswerChecked, isCorrect]
  timers              \* pending setTimeout callbacks of the lesson layer, per kind

playbackVars == <<clock, nextStartTime, sources, started, stopped, decoding>>
sessionVars == <<session, sessState, connecting, closing>>
captureVars == <<isRecording, mediaStream, sourceNode, scriptProcessorNode,
                 liveTracks, liveProcs, gum, nStreams>>
noticeVars == <<status, error>>
historyVars == <<arrivals, intrSeq, intrSeqs, intrAt, t0, runFrom,
                 sentCount, quiet, resets, startAfterReset, refCursor>>
codecVars == <<pcmFrame, wireBlob, pcmOut>>
lessonVars == <<studentProgress, activeUnitId, currentView, game, timers>>
vars == <<playbackVars, sessionVars, captureVars, noticeVars, historyVars, ev,
          codecVars, lessonVars>>

Max(a, b) == IF a >= b THEN a ELSE b

Event(op, s) == [op |-> op, sess |-> s]

\* ids of the connect attempts made so far are 1..NumSessions
NumSessions == Cardinality({s \in 1..MaxSessions : sessState[s] # "none"})

\* ------------------------------------------------------------ playback

\* An inbound LiveServerMessage, reduced to what onmessage reads: whether
\* parts[0].inlineData is present, the decoded duration, whether the payload is
\* malformed, and serverContent.interrupted.
Messages ==
  [audio : {TRUE}, dur : 1..MaxDur, bad : BOOLEAN, interrupted : BOOLEAN]
    \cup {[audio |-> FALSE, dur |-> 0, bad |-> FALSE, interrupted |-> TRUE]}

\* AudioBufferSourceNode.start(when): playback begins at `when`, or at once when
\* `when` is already past.
Begin(src) == Max(src.when, src.at)
End(src) == Begin(src) + src.dur

\* the cursor set to the output clock when the message arrives
arrivalCursorIsClock(nst, now) == now

\* line 355: the cursor is moved up to the output clock when the message arrives
arrivalCursor(nst, now) == Max(nst, now)

\* line 361: the argument of source.start
startArg(nst, now) == nst

\* the cursor advanced from the output clock instead of from the start time
advanceCursorFromClock(when, dur) == clock + dur

\* line 362: the cursor after the chunk
advanceCursor(when, dur) == when + dur

\* the interrupted branch without line 369: the stopped sources stay in the set
interruptedBranchKeepsSources(pb) ==
  [sources |-> pb.sources, stopped |-> pb.stopped \cup pb.sources,
   nextStartTime |-> 0]

\* the interrupted branch without line 371: the cursor is kept
interruptedBranchKeepsCursor(pb) ==
  [sources |-> {}, stopped |-> pb.stopped \cup pb.sources,
   nextStartTime |-> pb.nextStartTime]

\* lines 366-372: the interrupted branch, on the playback fields
\* pb = [sources, stopped, nextStartTime]
interruptedBranch(pb) ==
  [sources |-> {}, stopped |-> pb.stopped \cup pb.sources, nextStartTime |-> 0]

\* onmessage up to its first await (lines 352-356), or the whole handler when the
\* message carries no audio (lines 352-354, 365-373).  A message with neither
\* audio nor the interrupted flag changes nothing and is left out.
OnMessage(s, m) ==
  /\ sessState[s] \in {"open", "closing"}
  /\ arrivals < MaxMsgs
  /\ LET seq == arrivals + 1
         pb == interruptedBranch([sources |-> sources, stopped |-> stopped,
                                  nextStartTime |-> nextStartTime])
     IN /\ arrivals' = seq
        /\ intrSeqs' = IF m.interrupted THEN intrSeqs \cup {seq} ELSE intrSeqs
        /\ IF m.audio
             THEN /\ nextStartTime' = arrivalCursor(nextStartTime, clock)
                  /\ refCursor' = IF m.bad THEN refCursor
                                           ELSE arrivalCursor(refCursor, clock)
                  /\ decoding' = decoding \cup
                       {[seq |-> seq, sess |-> s, dur |-> m.dur, bad |-> m.bad,
                         interrupted |-> m.interrupted]}
                  /\ IF clock > nextStartTime
                       THEN t0' = nextStartTime' /\ runFrom' = Len(started)
                       ELSE UNCHANGED <<t0, runFrom>>
                  /\ ev' = Event("chunkArrived", s)
                  /\ UNCHANGED <<sources, stopped, intrSeq, intrAt>>
             ELSE /\ sources' = pb.sources
                  /\ stopped' = pb.stopped
                  /\ nextStartTime' = pb.nextStartTime
                  /\ refCursor' = pb.nextStartTime
                  /\ intrSeq' = Max(intrSeq, seq)
                  /\ intrAt' = Len(started)
                  /\ t0' = pb.nextStartTime /\ runFrom' = Len(started)
                  /\ ev' = Event("interrupted", s)
                  /\ UNCHANGED decoding
  /\ UNCHANGED <<clock, started, sessionVars, captureVars, noticeVars,
                 sentCount, quiet, resets, startAfterReset>>
  /\ UNCHANGED <<codecVars, lessonVars>>

\* onmessage after `await decodeAudioData` (lines 356-373).  A malformed payload
\* makes the await throw: the handler ends there, before the interrupted check.
DecodeDone(p) ==
  /\ p \in decoding
  /\ decoding' = decoding \ {p}
  /\ IF p.bad
       THEN /\ ev' = Event("decodeFailed", p.sess)
            /\ UNCHANGED <<nextStartTime, sources, started, stopped,
                           intrSeq, intrAt, t0, runFrom, refCursor>>
       ELSE LET src == [seq |-> p.seq, sess |-> p.sess,
                        when |-> startArg(nextStartTime, clock),
                        at |-> clock, dur |-> p.dur,
                        ref |-> startArg(refCursor, clock)]
                idx == Len(started) + 1
                pb1 == [sources |-> sources \cup {idx}, stopped |-> stopped,
                        nextStartTime |-> advanceCursor(src.when, p.dur)]
                pb2 == IF p.interrupted THEN interruptedBranch(pb1) ELSE pb1
            IN /\ started' = Append(started, src)
               /\ sources' = pb2.sources
               /\ stopped' = pb2.stopped
               /\ nextStartTime' = pb2.nextStartTime
               /\ refCursor' = IF p.interrupted
                                 THEN pb2.nextStartTime
                                 ELSE advanceCursor(src.ref, p.dur)
               /\ IF p.interrupted
                    THEN /\ intrSeq' = Max(intrSeq, p.seq)
                         /\ intrAt' = idx
                         /\ t0' = pb2.nextStartTime /\ runFrom' = idx
                         /\ ev' = Event("interrupted", p.sess)
                    ELSE /\ UNCHANGED <<intrSeq, intrAt, t0, runFrom>>
                         /\ ev' = Event("chunkStarted", p.sess)
  /\ UNCHANGED <<clock, sessionVars, captureVars, noticeVars,
                 arrivals, intrSeqs, sentCount, quiet, resets,
                 startAfterReset>>
  /\ UNCHANGED <<codecVars, lessonVars>>

\* line 360: the 'ended' listener of a node whose playback has run to its end
Ended(i) ==
  /\ i \in sources
  /\ clock >= End(started[i])
  /\ sources' = sources \ {i}
  /\ ev' = Event("ended", started[i].sess)
  /\ UNCHANGED <<clock, nextStartTime, started, stopped, decoding,
                 sessionVars, captureVars, noticeVars, historyVars>>
  /\ UNCHANGED <<codecVars, lessonVars>>

\* the output AudioContext's clock advances
Tick ==
  /\ clock < MaxTime
  /\ clock' = clock + 1
  /\ ev' = Event("tick", 0)
  /\ UNCHANGED <<nextStartTime, sources, started, stopped, decoding,
                 sessionVars, captureVars, noticeVars, historyVars>>
  /\ UNCHANGED <<codecVars, lessonVars>>

\* ------------------------------------------------- notifications, capture

\* the controller fields that updateStatus, updateError and stopRecording write
Cap ==
  [isRecording |-> isRecording, mediaStream |-> mediaStream,
   sourceNode |-> sourceNode, scriptProcessorNode |-> scriptProcessorNode,
   liveTracks |-> liveTracks, liveProcs |-> liveProcs,
   status |-> status, error |-> error]

SetCap(c) ==
  /\ isRecording' = c.isRecording
  /\ mediaStream' = c.mediaStream
  /\ sourceNode' = c.sourceNode
  /\ scriptProcessorNode' = c.scriptProcessorNode
  /\ liveTracks' = c.liveTracks
  /\ liveProcs' = c.liveProcs
  /\ status' = c.status
  /\ error' = c.error

updateStatus(c, msg) == [c EXCEPT !.status = msg, !.error = ""]

\* an updateError that leaves the status line as it was
updateErrorKeepsStatus(c, msg) == [c EXCEPT !.error = msg]

updateError(c, msg) == [c EXCEPT !.error = msg, !.status = ""]

\* stopRecording without the early return of line 443
stopRecordingNoGuard(c) ==
  updateStatus(
    [c EXCEPT !.isRecording = FALSE,
              !.liveProcs = @ \ {c.scriptProcessorNode},
              !.scriptProcessorNode = 0,
              !.sourceNode = 0,
              !.liveTracks = @ \ {c.mediaStream},
              !.mediaStream = 0],
    "stopped")

\* lines 442-463: stopRecording on the fields it writes
stopRecording(c) ==
  IF ~c.isRecording /\ c.mediaStream = 0 /\ c.scriptProcessorNode = 0
    THEN c
    ELSE updateStatus(
           [c EXCEPT !.isRecording = FALSE,
                     !.liveProcs = @ \ {c.scriptProcessorNode},
                     !.scriptProcessorNode = 0,
                     !.sourceNode = 0,
                     !.liveTracks = @ \ {c.mediaStream},
                     !.mediaStream = 0],
           "stopped")

\* lines 401-411: startRecording up to its first await.  A call that passes the
\* isRecording check will ask for the microphone: k is the stream it will get.
StartRecording ==
  /\ quiet' = FALSE
  /\ startAfterReset' = (resets > 0)
  /\ ev' = Event("startRecording", session)
  /\ IF isRecording
       THEN UNCHANGED <<sessionVars, captureVars, noticeVars>>
       ELSE /\ nStreams < MaxStreams
            /\ nStreams' = nStreams + 1
            /\ IF session = 0
                 THEN /\ NumSessions + Cardinality(closing) < MaxSessions
                      /\ SetCap(updateError(Cap, "noSession"))
                      /\ sessState' = [sessState EXCEPT ![NumSessions + 1] = "connecting"]
                      /\ connecting' = connecting \cup
                           {[sess |-> NumSessions + 1, caller |-> "start",
                             stream |-> nStreams + 1]}
                      /\ UNCHANGED <<session, closing, gum>>
                 ELSE /\ SetCap(updateStatus(Cap, "requesting"))
                      /\ gum' = gum \cup {nStreams + 1}
                      /\ UNCHANGED sessionVars
  /\ UNCHANGED <<playbackVars, arrivals, intrSeq, intrSeqs, intrAt, t0, runFrom,
                 sentCount, resets, refCursor>>
  /\ UNCHANGED <<codecVars, lessonVars>>

\* lines 413-434: getUserMedia resolved with stream k
GumOk(k) ==
  /\ k \in gum
  /\ gum' = gum \ {k}
  /\ SetCap(updateStatus(
       [Cap EXCEPT !.mediaStream = k, !.sourceNode = k,
                   !.scriptProcessorNode = k,
                   !.liveTracks = @ \cup {k}, !.liveProcs = @ \cup {k},
                   !.isRecording = TRUE],
       "recording"))
  /\ ev' = Event("recordingStarted", session)
  /\ UNCHANGED <<playbackVars, sessionVars, nStreams, historyVars>>
  /\ UNCHANGED <<codecVars, lessonVars>>

\* lines 435-439: getUserMedia rejected
GumFail(k) ==
  /\ k \in gum
  /\ gum' = gum \ {k}
  /\ SetCap(stopRecording(updateStatus(Cap, "startError")))
  /\ quiet' = TRUE
  /\ ev' = Event("microphoneDenied", session)
  /\ UNCHANGED <<playbackVars, sessionVars, nStreams, arrivals, intrSeq,
                 intrSeqs, intrAt, t0, runFrom, sentCount, resets,
                 startAfterReset, refCursor>>
  /\ UNCHANGED <<codecVars, lessonVars>>

\* lines 442-463
StopRecording ==
  /\ SetCap(stopRecording(Cap))
  /\ quiet' = TRUE
  /\ ev' = Event("stopRecording", session)
  /\ UNCHANGED <<playbackVars, sessionVars, gum, nStreams, arrivals, intrSeq,
                 intrSeqs, intrAt, t0, runFrom, sentCount, resets,
                 startAfterReset, refCursor>>
  /\ UNCHANGED <<codecVars, lessonVars>>

\* the guard of line 420 without its isRecording test
frameAdmittedAnyState(rec, sess) == sess # 0

\* line 420: the frame goes on to sendRealtimeInput only past this guard
frameAdmitted(rec, sess) == rec /\ sess # 0

\* lines 419-430: onaudioprocess of script processor p.  sendRealtimeInput may
\* throw when the session is not open.
AudioProcess(p, throws) ==
  /\ p \in liveProcs
  /\ sentCount < MaxFrames
  /\ IF ~frameAdmitted(isRecording, session)
       THEN /\ ~throws
            /\ ev' = Event("frameDropped", session)
            /\ UNCHANGED <<captureVars, noticeVars, sentCount, quiet>>
       ELSE /\ sentCount' = sentCount + 1
            /\ IF throws
                 THEN /\ sessState[session] # "open"
                      /\ SetCap(stopRecording(updateError(Cap, "sendFailed")))
                      /\ quiet' = TRUE
                      /\ ev' = Event("sendFailed", session)
                 ELSE /\ ev' = Event("frameSent", session)
                      /\ UNCHANGED <<isRecording, mediaStream, sourceNode,
                                     scriptProcessorNode, liveTracks, liveProcs,
                                     noticeVars, quiet>>
            /\ UNCHANGED <<gum, nStreams>>
  /\ UNCHANGED <<playbackVars, sessionVars, arrivals, intrSeq, intrSeqs, intrAt,
                 t0, runFrom, resets, startAfterReset, refCursor>>
  /\ UNCHANGED <<codecVars, lessonVars>>

\* the catch of sendAiTextMessage handling the failure as onaudioprocess does
textSendFailedStops(c) == stopRecording(updateError(c, "textSendFailed"))

\* lines 568-571: the catch of sendAiTextMessage
textSendFailed(c) == updateError(c, "textSendFailed")

\* lines 564-573: sendAiTextMessage.  Nothing follows its await, so the call is
\* one step; the catch of line 568 takes any exception, so sendRealtimeInput
\* may throw whatever the state of the session.
SendAiTextMessage(throws) ==
  /\ IF session = 0
       THEN /\ ~throws
            /\ ev' = Event("textDropped", session)
            /\ UNCHANGED <<isRecording, mediaStream, sourceNode,
                           scriptProcessorNode, liveTracks, liveProcs,
                           noticeVars>>
       ELSE IF throws
              THEN /\ SetCap(textSendFailed(Cap))
                   /\ ev' = Event("textSendFailed", session)
              ELSE /\ ev' = Event("textSent", session)
                   /\ UNCHANGED <<isRecording, mediaStream, sourceNode,
                                  scriptProcessorNode, liveTracks, liveProcs,
                                  noticeVars>>
  /\ UNCHANGED <<playbackVars, sessionVars, gum, nStreams, historyVars>>
  /\ UNCHANGED <<codecVars, lessonVars>>

\* ------------------------------------------------------------- session

\* what the caller of initSession does once initSession has returned: nothing
\* (initClient, line 340), lines 410-413 (startRecording), line 481 (reset)
afterInitSession(c, caller) ==
  CASE caller = "init" -> c
    [] caller = "start" -> updateStatus(c, "requesting")
    [] caller = "reset" -> updateStatus(c, "resetDone")

\* lines 346-350, 384: connect succeeds.  The onopen callback runs, the session
\* is stored and the caller of initSession goes on.
ConnectOk(c) ==
  /\ c \in connecting
  /\ connecting' = connecting \ {c}
  /\ sessState' = [sessState EXCEPT ![c.sess] = "open"]
  /\ session' = c.sess
  /\ SetCap(afterInitSession(updateStatus(Cap, "connected"), c.caller))
  /\ gum' = IF c.caller = "start" THEN gum \cup {c.stream} ELSE gum
  /\ ev' = Event("connected", c.sess)
  /\ UNCHANGED <<playbackVars, closing, nStreams, historyVars>>
  /\ UNCHANGED <<codecVars, lessonVars>>

\* lines 385-388: connect fails.  initSession reports it and returns normally.
ConnectFail(c) ==
  /\ c \in connecting
  /\ connecting' = connecting \ {c}
  /\ sessState' = [sessState EXCEPT ![c.sess] = "failed"]
  /\ SetCap(afterInitSession(updateError(Cap, "connectFailed"), c.caller))
  /\ gum' = IF c.caller = "start" THEN gum \cup {c.stream} ELSE gum
  /\ ev' = Event("connectFailed", c.sess)
  /\ UNCHANGED <<playbackVars, session, closing, nStreams, historyVars>>
  /\ UNCHANGED <<codecVars, lessonVars>>

\* line 374
OnError(s) ==
  /\ sessState[s] = "open"
  /\ sessState' = [sessState EXCEPT ![s] = "errored"]
  /\ SetCap(updateError(Cap, "transport"))
  /\ ev' = Event("onerror", s)
  /\ UNCHANGED <<playbackVars, session, connecting, closing, gum, nStreams,
                 historyVars>>
  /\ UNCHANGED <<codecVars, lessonVars>>

\* an onclose callback that connects again by calling initSession
OnCloseReconnects(s) ==
  /\ sessState[s] \in {"open", "errored", "closing"}
  /\ NumSessions < MaxSessions
  /\ sessState' = [sessState EXCEPT ![s] = "closed",
                                    ![NumSessions + 1] = "connecting"]
  /\ connecting' = connecting \cup
       {[sess |-> NumSessions + 1, caller |-> "init", stream |-> 0]}
  /\ SetCap(updateStatus(Cap, "closed"))
  /\ ev' = Event("onclose", s)
  /\ UNCHANGED <<playbackVars, session, closing, gum, nStreams, historyVars>>
  /\ UNCHANGED <<codecVars, lessonVars>>

\* line 375: the transport closed, on its own or after session.close()
OnClose(s) ==
  /\ sessState[s] \in {"open", "errored", "closing"}
  /\ sessState' = [sessState EXCEPT ![s] = "closed"]
  /\ SetCap(updateStatus(Cap, "closed"))
  /\ ev' = Event("onclose", s)
  /\ UNCHANGED <<playbackVars, session, connecting, closing, gum, nStreams,
                 historyVars>>
  /\ UNCHANGED <<codecVars, lessonVars>>

\* lines 471-480: reset from `this.session = null` to the connect of initSession.
\* Both audio contexts are taken to be running, so lines 478-479 do not suspend.
ResetTail(states) ==
  /\ session' = 0
  /\ sources' = {}
  /\ stopped' = stopped \cup sources
  /\ nextStartTime' = 0
  /\ refCursor' = 0
  /\ t0' = 0 /\ runFrom' = Len(started)
  /\ sessState' = [states EXCEPT ![NumSessions + 1] = "connecting"]
  /\ connecting' = connecting \cup
       {[sess |-> NumSessions + 1, caller |-> "reset", stream |-> 0]}

\* lines 465-469: reset up to `await this.session.close()`, or, with no session,
\* up to the connect of initSession (lines 465-480).  close() may throw.
ResetBegin(throws) ==
  /\ NumSessions + Cardinality(closing) < MaxSessions
  /\ resets' = resets + 1
  /\ quiet' = TRUE
  /\ startAfterReset' = FALSE
  /\ SetCap(updateStatus(stopRecording(Cap), "resetting"))
  /\ ev' = Event("reset", session)
  /\ IF session # 0
       THEN /\ closing' = closing \cup {[sess |-> session, id |-> resets + 1]}
            /\ sessState' =
                 IF ~throws /\ sessState[session] \in {"open", "errored"}
                   THEN [sessState EXCEPT ![session] = "closing"]
                   ELSE sessState
            /\ UNCHANGED <<session, connecting, nextStartTime, sources, stopped,
                           t0, runFrom, refCursor>>
       ELSE /\ ~throws
            /\ ResetTail(sessState)
            /\ UNCHANGED closing
  /\ UNCHANGED <<clock, started, decoding, gum, nStreams, arrivals, intrSeq,
                 intrSeqs, intrAt, sentCount>>
  /\ UNCHANGED <<codecVars, lessonVars>>

\* reset without the try/catch of lines 468-470: a close() that threw ends it
ResetAbortsOnThrow(r) ==
  /\ r \in closing
  /\ closing' = closing \ {r}
  /\ ev' = Event("resetClosed", r.sess)
  /\ IF sessState[r.sess] = "open"
       THEN UNCHANGED <<session, sessState, connecting, nextStartTime, sources,
                       stopped, t0, runFrom, refCursor>>
       ELSE ResetTail(sessState)
  /\ UNCHANGED <<clock, started, decoding, captureVars, noticeVars, arrivals,
                 intrSeq, intrSeqs, intrAt, sentCount, quiet, resets,
                 startAfterReset>>
  /\ UNCHANGED <<codecVars, lessonVars>>

\* lines 469-480: reset after `await this.session.close()`, whether close()
\* returned or threw
ResetAfterClose(r) ==
  /\ r \in closing
  /\ closing' = closing \ {r}
  /\ ResetTail(sessState)
  /\ ev' = Event("resetClosed", r.sess)
  /\ UNCHANGED <<clock, started, decoding, captureVars, noticeVars, arrivals,
                 intrSeq, intrSeqs, intrAt, sentCount, quiet, resets,
                 startAfterReset>>
  /\ UNCHANGED <<codecVars, lessonVars>>

\* --------------------------------------------------------- frame codec
\* createBlob, decode and decodeAudioData of ./utils.js (imported at line 10),
\* as the specification describes them: PCM16 mono samples, clamped to the wire
\* width, written as little-endian bytes and carried as base64 text.

SampleMin == -32768
SampleMax == 32767

\* sample values around the ends of the range and around the byte boundaries
ProbeSamples ==
  {SampleMin - 1, SampleMin, SampleMin + 1, -257, -256, -1, 0, 1, 255, 256,
   SampleMax, SampleMax + 1}

RECURSIVE SeqsUpTo(_, _)
\* the sequences over S of length 0..n
SeqsUpTo(S, n) ==
  IF n = 0 THEN {<<>>}
  ELSE LET shorter == SeqsUpTo(S, n - 1)
       IN shorter \cup {Append(q, x) : q \in shorter, x \in S}

Frames == SeqsUpTo(ProbeSamples, MaxFrameLen)

InRange(frame) ==
  \A i \in DOMAIN frame : frame[i] >= SampleMin /\ frame[i] <= SampleMax

NoBlob == [mimeType |-> "", data |-> <<>>]
NotDecoded == [result |-> "none", samples |-> <<>>]
DecodeError == [result |-> "DecodeError", samples |-> <<>>]
Decoded(samples) == [result |-> "ok", samples |-> samples]

\* encode clamps a sample to the wire width
clampSample(x) ==
  IF x > SampleMax THEN SampleMax ELSE IF x < SampleMin THEN SampleMin ELSE x

\* the 16-bit two's-complement word of a sample
wordOfSample(x) == (x + 65536) % 65536

\* a 16-bit word read as an unsigned number
wordAsUnsigned(u) == u

\* a 16-bit word read as a signed sample
sampleOfWord(u) == IF u >= 32768 THEN u - 65536 ELSE u

RECURSIVE bytesOfSamples(_)
\* little-endian bytes of the clamped samples
bytesOfSamples(frame) ==
  IF frame = <<>> THEN <<>>
  ELSE LET u == wordOfSample(clampSample(Head(frame)))
       IN <<u % 256, u \div 256>> \o bytesOfSamples(Tail(frame))

RECURSIVE samplesOfBytes(_)
\* parses little-endian byte pairs into samples
samplesOfBytes(bytes) ==
  IF bytes = <<>> THEN <<>>
  ELSE <<sampleOfWord(bytes[1] + 256 * bytes[2])>>
         \o samplesOfBytes(SubSeq(bytes, 3, Len(bytes)))

\* the base64 padding character, next to the digits 0..63
Pad == 64

RECURSIVE encodeBase64(_)
\* base64 digits of a byte sequence, three bytes to four digits
encodeBase64(bytes) ==
  CASE Len(bytes) = 0 -> <<>>
    [] Len(bytes) = 1 ->
         <<bytes[1] \div 4, (bytes[1] % 4) * 16, Pad, Pad>>
    [] Len(bytes) = 2 ->
         <<bytes[1] \div 4, (bytes[1] % 4) * 16 + bytes[2] \div 16,
           (bytes[2] % 16) * 4, Pad>>
    [] OTHER ->
         <<bytes[1] \div 4, (bytes[1] % 4) * 16 + bytes[2] \div 16,
           (bytes[2] % 16) * 4 + bytes[3] \div 64, bytes[3] % 64>>
           \o encodeBase64(SubSeq(bytes, 4, Len(bytes)))

RECURSIVE decode(_)
\* decode: the bytes of a base64 text whose length is a multiple of four
decode(digits) ==
  IF digits = <<>> THEN <<>>
  ELSE LET d == SubSeq(digits, 1, 4)
           b1 == d[1] * 4 + d[2] \div 16
           b2 == (d[2] % 16) * 16 + d[3] \div 4
           b3 == (d[3] % 4) * 64 + d[4]
           rest == decode(SubSeq(digits, 5, Len(digits)))
       IN CASE d[3] = Pad -> <<b1>>
            [] d[4] = Pad -> <<b1, b2>>
            [] OTHER -> <<b1, b2, b3>> \o rest

\* encode: the blob sent as realtime input
createBlob(frame) ==
  [mimeType |-> "audio/pcm;rate=16000",
   data |-> encodeBase64(bytesOfSamples(frame))]

\* decode of a payload into PCM16 samples; a payload that is not a whole number
\* of base64 groups or of samples is malformed
decodeAudioData(digits) ==
  IF Len(digits) % 4 # 0 THEN DecodeError
  ELSE LET bytes == decode(digits)
       IN IF Len(bytes) % 2 # 0 THEN DecodeError
          ELSE Decoded(samplesOfBytes(bytes))

Encode ==
  /\ wireBlob = NoBlob
  /\ wireBlob' = createBlob(pcmFrame)
  /\ ev' = Event("encoded", 0)
  /\ UNCHANGED <<playbackVars, sessionVars, captureVars, noticeVars,
                 historyVars, pcmFrame, pcmOut, lessonVars>>

Decode ==
  /\ wireBlob # NoBlob
  /\ pcmOut = NotDecoded
  /\ pcmOut' = decodeAudioData(wireBlob.data)
  /\ ev' = Event("decoded", 0)
  /\ UNCHANGED <<playbackVars, sessionVars, captureVars, noticeVars,
                 historyVars, pcmFrame, wireBlob, lessonVars>>

\* -------------------------------------------------------- lesson layer

\* UNITS_DATA, lines 40-77: four units, the first with a game component, all
\* with the same completion criteria
NumUnits == 4
problemsToPass == 8
totalProblemsInSession == 10
Units == 1..NumUnits
HasGame(u) == u = 1

TimerKinds == {"lockedNote", "completed", "sessionEnded"}

\* lines 302-311: loadProgress with nothing saved
FreshProgress ==
  [u \in Units |->
     [status |-> IF u = 1 THEN "unlocked" ELSE "locked",
      correct |-> 0, attempted |-> 0]]

\* the game is rendered for the addition unit in the game view (lines 664-670)
GameMounted == currentView = "game" /\ activeUnitId # 0 /\ HasGame(activeUnitId)

\* a game that never finds its session over
isSessionOverNever(sp, u) == FALSE

\* lines 872-875: isSessionOver, on the progress object the parent passes down
isSessionOver(sp, u) == sp[u].attempted >= totalProblemsInSession

\* completion decided on the correct answers alone
unitPassedOnCorrectOnly(p) == p.correct >= problemsToPass

\* lines 519-520: the completion test of handleGameEvent
unitPassed(p) ==
  /\ p.correct >= problemsToPass
  /\ p.attempted >= totalProblemsInSession

\* lines 512-530: handleGameEvent counts an answer for unit u, completes the
\* unit and unlocks the next one
answerProgress(sp, u, right) ==
  LET counted == [sp EXCEPT ![u].attempted = @ + 1,
                            ![u].correct = IF right THEN @ + 1 ELSE @]
      done == [counted EXCEPT ![u].status = "completed"]
  IN IF ~unitPassed(counted[u]) THEN counted
     ELSE IF u + 1 \in Units /\ done[u + 1].status = "locked"
            THEN [done EXCEPT ![u + 1].status = "unlocked"]
            ELSE done

\* lines 564-573 as called by the lesson layer: a failing send sets the error
sendText(c, throws) == IF session # 0 /\ throws THEN textSendFailed(c) ELSE c

\* lines 484-499, and for a unit that opens, the game's connectedCallback with
\* its first new_question event (lines 852-866, 885-909, 501-511, 548-561)
HandleUnitClick(u, throws) ==
  /\ currentView = "dashboard"
  /\ ev' = Event("unitClick", u)
  /\ IF HasGame(u) /\ studentProgress[u].status # "locked"
       THEN /\ activeUnitId' = u
            /\ studentProgress' =
                 [studentProgress EXCEPT ![u].correct = 0, ![u].attempted = 0]
            /\ currentView' = "game"
            /\ game' = [isAnswerChecked |-> FALSE, isCorrect |-> FALSE]
            /\ SetCap(IF studentProgress[u].status = "completed"
                        THEN updateStatus(Cap, "starting")
                        ELSE sendText(updateStatus(Cap, "starting"), throws))
            /\ UNCHANGED timers
       ELSE IF studentProgress[u].status = "locked"
              THEN /\ timers["lockedNote"] < MaxTimers
                   /\ timers' = [timers EXCEPT !["lockedNote"] = @ + 1]
                   /\ SetCap(updateStatus(Cap, "locked"))
                   /\ UNCHANGED <<studentProgress, activeUnitId, currentView,
                                  game>>
              ELSE UNCHANGED <<isRecording, mediaStream, sourceNode,
                               scriptProcessorNode, liveTracks, liveProcs,
                               noticeVars, lessonVars>>
  /\ UNCHANGED <<playbackVars, sessionVars, gum, nStreams, historyVars,
                 codecVars>>

\* lines 911-943 with dispatchAnswerEvent and, in the parent, handleGameEvent
\* for an answer (lines 501-547, 559-561).  input is what the answer box holds.
CheckAnswer(input, throws) ==
  /\ GameMounted
  /\ LET u == activeUnitId
         counted == answerProgress(studentProgress, u, input = "right")
     IN IF \/ isSessionOver(studentProgress, u)
           \/ game.isAnswerChecked /\ game.isCorrect
          THEN /\ ev' = Event("answerIgnored", u)
               /\ UNCHANGED <<isRecording, mediaStream, sourceNode,
                              scriptProcessorNode, liveTracks, liveProcs,
                              noticeVars, lessonVars>>
          ELSE IF input = "empty"
                 THEN /\ game' = [isAnswerChecked |-> TRUE, isCorrect |-> FALSE]
                      /\ ev' = Event("answerEmpty", u)
                      /\ UNCHANGED <<isRecording, mediaStream, sourceNode,
                                     scriptProcessorNode, liveTracks, liveProcs,
                                     noticeVars, studentProgress, activeUnitId,
                                     currentView, timers>>
                 ELSE /\ game' = [isAnswerChecked |-> TRUE,
                                  isCorrect |-> (input = "right")]
                      /\ ev' = Event("answer", u)
                      /\ UNCHANGED <<activeUnitId, currentView>>
                      /\ IF studentProgress[u].status = "completed"
                           THEN UNCHANGED <<isRecording, mediaStream, sourceNode,
                                            scriptProcessorNode, liveTracks,
                                            liveProcs, noticeVars,
                                            studentProgress, timers>>
                           ELSE /\ studentProgress' = counted
                                /\ SetCap(sendText(Cap, throws))
                                /\ IF unitPassed(counted[u])
                                     THEN /\ timers["completed"] < MaxTimers
                                          /\ timers' = [timers EXCEPT
                                                          !["completed"] = @ + 1]
                                     ELSE IF isSessionOver(counted, u)
                                       THEN /\ timers["sessionEnded"] < MaxTimers
                                            /\ timers' = [timers EXCEPT
                                                 !["sessionEnded"] = @ + 1]
                                       ELSE UNCHANGED timers
  /\ UNCHANGED <<playbackVars, sessionVars, gum, nStreams, historyVars,
                 codecVars>>

\* lines 964-968 and 885-909: the Next button, or the timer of line 931, asks
\* for a new question; handleGameEvent forwards it (lines 501-511, 548-561)
NextQuestion(throws) ==
  /\ GameMounted
  /\ ev' = Event("newQuestion", activeUnitId)
  /\ IF isSessionOver(studentProgress, activeUnitId)
       THEN UNCHANGED <<isRecording, mediaStream, sourceNode,
                        scriptProcessorNode, liveTracks, liveProcs, noticeVars,
                        game>>
       ELSE /\ game' = [isAnswerChecked |-> FALSE, isCorrect |-> FALSE]
            /\ SetCap(IF studentProgress[activeUnitId].status = "completed"
                        THEN Cap ELSE sendText(Cap, throws))
  /\ UNCHANGED <<playbackVars, sessionVars, gum, nStreams, historyVars,
                 codecVars, studentProgress, activeUnitId, currentView, timers>>

\* lines 575-585: the Dashboard button of the game view
NavigateToDashboard(throws) ==
  /\ currentView = "game"
  /\ currentView' = "dashboard"
  /\ activeUnitId' = 0
  /\ SetCap(updateStatus(IF activeUnitId # 0 THEN sendText(Cap, throws)
                                               ELSE Cap,
                         "welcome"))
  /\ ev' = Event("toDashboard", activeUnitId)
  /\ UNCHANGED <<playbackVars, sessionVars, gum, nStreams, historyVars,
                 codecVars, studentProgress, game, timers>>

\* the setTimeout callbacks of lines 497, 531-535 and 539-543
TimerFires(kind) ==
  /\ timers[kind] > 0
  /\ timers' = [timers EXCEPT ![kind] = @ - 1]
  /\ ev' = Event("timer", 0)
  /\ IF kind = "lockedNote"
       THEN /\ SetCap(updateStatus(Cap, "connected"))
            /\ UNCHANGED <<activeUnitId, currentView>>
       ELSE /\ currentView' = "dashboard"
            /\ activeUnitId' = 0
            /\ SetCap(updateStatus(Cap, kind))
  /\ UNCHANGED <<playbackVars, sessionVars, gum, nStreams, historyVars,
                 codecVars, studentProgress, game>>

\* ------------------------------------------------------- specification

\* The state the constructor leaves (lines 291-295, 332-341): the cursor is the
\* output clock, and the first connect is outstanding.
InitLiveAudio ==
  /\ clock = 0
  /\ nextStartTime = 0
  /\ sources = {}
  /\ started = <<>>
  /\ stopped = {}
  /\ decoding = {}
  /\ session = 0
  /\ sessState = [s \in 1..MaxSessions |-> IF s = 1 THEN "connecting" ELSE "none"]
  /\ connecting = {[sess |-> 1, caller |-> "init", stream |-> 0]}
  /\ closing = {}
  /\ isRecording = FALSE
  /\ status = ""
  /\ error = ""
  /\ mediaStream = 0
  /\ sourceNode = 0
  /\ scriptProcessorNode = 0
  /\ liveTracks = {}
  /\ liveProcs = {}
  /\ gum = {}
  /\ nStreams = 0
  /\ arrivals = 0
  /\ intrSeq = 0
  /\ intrSeqs = {}
  /\ intrAt = -1
  /\ t0 = 0
  /\ runFrom = 0
  /\ sentCount = 0
  /\ quiet = FALSE
  /\ resets = 0
  /\ startAfterReset = FALSE
  /\ refCursor = 0
  /\ ev = Event("constructed", 0)

\* lines 85-88, 291-295, 297-325: the lesson layer after construction with no
\* saved progress
InitLesson ==
  /\ studentProgress = FreshProgress
  /\ activeUnitId = 0
  /\ currentView = "dashboard"
  /\ game = [isAnswerChecked |-> FALSE, isCorrect |-> FALSE]
  /\ timers = [k \in TimerKinds |-> 0]

\* no frame has been handed to the codec
InitCodecIdle ==
  /\ pcmFrame = <<>>
  /\ wireBlob = NoBlob
  /\ pcmOut = NotDecoded

Init == InitLiveAudio /\ InitLesson /\ InitCodecIdle

\* the inbound path: messages, decoding, playback, the output clock
PlaybackStep ==
  \/ \E s \in 1..MaxSessions, m \in Messages : OnMessage(s, m)
  \/ \E p \in decoding : DecodeDone(p)
  \/ \E i \in sources : Ended(i)
  \/ Tick

\* the capture path: the UI's start and stop, the microphone, audio frames
CaptureStep ==
  \/ StartRecording
  \/ \E k \in gum : GumOk(k)
  \/ \E k \in gum : GumFail(k)
  \/ StopRecording
  \/ \E p \in liveProcs, throws \in BOOLEAN : AudioProcess(p, throws)

\* the session lifecycle: connect outcomes, transport events, reset
SessionStep ==
  \/ \E c \in connecting : ConnectOk(c)
  \/ \E c \in connecting : ConnectFail(c)
  \/ \E s \in 1..MaxSessions : OnError(s)
  \/ \E s \in 1..MaxSessions : OnClose(s)
  \/ \E throws \in BOOLEAN : ResetBegin(throws)
  \/ \E r \in closing : ResetAfterClose(r)

\* the lesson layer forwards a text to the model
TextStep == \E throws \in BOOLEAN : SendAiTextMessage(throws)

\* the frame codec applied to a frame
CodecStep == Encode \/ Decode

\* the dashboard, the game and their timers
LessonStep ==
  \/ \E u \in Units, throws \in BOOLEAN : HandleUnitClick(u, throws)
  \/ \E input \in {"empty", "right", "wrong"}, throws \in BOOLEAN :
       CheckAnswer(input, throws)
  \/ \E throws \in BOOLEAN : NextQuestion(throws)
  \/ \E throws \in BOOLEAN : NavigateToDashboard(throws)
  \/ \E kind \in TimerKinds : TimerFires(kind)

Next ==
  \/ PlaybackStep \/ CaptureStep \/ SessionStep \/ TextStep
  \/ CodecStep \/ LessonStep

Spec == Init /\ [][Next]_vars

\* The capture steps leave the playback fields alone and the playback steps
\* leave the capture fields alone, so each path is checked without the other.

\* the inbound path on the session of the initial connect
NextPlayback == PlaybackStep \/ \E c \in connecting : ConnectOk(c)

SpecPlayback == Init /\ [][NextPlayback]_vars

\* the inbound path with the whole session lifecycle
NextSession == PlaybackStep \/ SessionStep

SpecSession == Init /\ [][NextSession]_vars

\* the capture path with the whole session lifecycle
NextCapture == CaptureStep \/ SessionStep

SpecCapture == Init /\ [][NextCapture]_vars

\* the messages that only put a source into the active set
PlainChunks == {m \in Messages : m.audio /\ ~m.bad /\ ~m.interrupted}

\* the plain chunks of the shortest duration
ShortChunks == {m \in PlainChunks : m.dur = 1}

\* chunks, decoding and reset on the sessions that connect, with the output
\* clock standing still.  The await of line 469 always resumes: session.close()
\* returns or throws at once.
NextReset ==
  \/ \E s \in 1..MaxSessions, m \in ShortChunks : OnMessage(s, m)
  \/ \E p \in decoding : DecodeDone(p)
  \/ \E c \in connecting : ConnectOk(c)
  \/ \E throws \in BOOLEAN : ResetBegin(throws)
  \/ \E r \in closing : ResetAfterClose(r)

SpecReset ==
  Init /\ [][NextReset]_vars /\ WF_vars(\E r \in closing : ResetAfterClose(r))

\* the session lifecycle with the startRecording calls that may connect
NextConnect == StartRecording \/ SessionStep

SpecConnect == Init /\ [][NextConnect]_vars

\* short chunks and bare interruptions
CursorMessages == ShortChunks \cup {m \in Messages : ~m.audio}

\* the steps that write or read the cursor: chunks, interruptions, the output
\* clock and reset, on the sessions that connect
NextCursor ==
  \/ \E s \in 1..MaxSessions, m \in CursorMessages : OnMessage(s, m)
  \/ \E p \in decoding : DecodeDone(p)
  \/ Tick
  \/ \E c \in connecting : ConnectOk(c)
  \/ \E throws \in BOOLEAN : ResetBegin(throws)
  \/ \E r \in closing : ResetAfterClose(r)

SpecCursor == Init /\ [][NextCursor]_vars

\* the messages whose chunk, if any, is of the shortest duration
BriefMessages == {m \in Messages : m.dur <= 1}

\* the life of the sources on the session of the initial connect: chunks start,
\* play to their end or are cancelled by an interruption.  The 'ended' event of
\* a node that has played to its end is delivered.
NextActive ==
  \/ \E s \in 1..MaxSessions, m \in BriefMessages : OnMessage(s, m)
  \/ \E p \in decoding : DecodeDone(p)
  \/ \E i \in sources : Ended(i)
  \/ Tick
  \/ \E c \in connecting : ConnectOk(c)

SpecActive ==
  Init /\ [][NextActive]_vars /\ \A i \in 1..MaxMsgs : WF_vars(Ended(i))

\* the codec applied to each frame of Frames
InitCodec ==
  /\ InitLiveAudio /\ InitLesson
  /\ pcmFrame \in Frames
  /\ wireBlob = NoBlob
  /\ pcmOut = NotDecoded

SpecCodec == InitCodec /\ [][CodecStep]_vars

\* the lesson layer, its texts going to the session of the initial connect
NextLesson == LessonStep \/ \E c \in connecting : ConnectOk(c)

SpecLesson == Init /\ [][NextLesson]_vars

\* the capture path on sessions that connect, may close and are reset
NextRecord ==
  \/ CaptureStep
  \/ \E c \in connecting : ConnectOk(c)
  \/ \E s \in 1..MaxSessions : OnClose(s)
  \/ \E throws \in BOOLEAN : ResetBegin(throws)
  \/ \E r \in closing : ResetAfterClose(r)

SpecRecord == Init /\ [][NextRecord]_vars

\* texts sent while chunks play and the microphone records, on sessions that
\* connect, with the output clock standing still
NextText ==
  \/ TextStep
  \/ \E s \in 1..MaxSessions, m \in ShortChunks : OnMessage(s, m)
  \/ \E p \in decoding : DecodeDone(p)
  \/ StartRecording
  \/ \E k \in gum : GumOk(k)
  \/ \E c \in connecting : ConnectOk(c)

SpecText == Init /\ [][NextText]_vars

\* ------------------------------------------------------------ properties

RECURSIVE SumDur(_, _)
\* the durations of started[a..b] added up
SumDur(a, b) == IF a > b THEN 0 ELSE started[a].dur + SumDur(a + 1, b)

\* C1: once an interrupted message has been handled, no chunk whose message
\* arrived before it is in the active-source set (a chunk enters the set in the
\* step that starts it), and that includes a chunk still being decoded when the
\* interruption was handled.
BargeInCancelsEarlierChunks ==
  \A i \in sources : started[i].seq > intrSeq

\* C2: no two sources of the active set play at the same time: the one started
\* later begins no earlier than the other one ends.
NoOverlapInActiveSet ==
  \A i, j \in sources : i < j => Begin(started[j]) >= End(started[i])

StartNotBeforeClock ==
  \A i \in DOMAIN started : started[i].when >= started[i].at

\* C6: of two chunks with no interrupted message from the first one's arrival
\* to the second one's, the one that arrived first is started first, at a start
\* time no later than the other's.
StartedInArrivalOrder ==
  \A i, j \in DOMAIN started :
    (/\ started[i].seq < started[j].seq
     /\ ~\E k \in intrSeqs : started[i].seq <= k /\ k <= started[j].seq)
      => (i < j /\ started[i].when <= started[j].when)

\* C7: when stopRecording has just returned, every microphone stream and script
\* processor acquired so far is released; and no audio frame goes to
\* sendRealtimeInput between a return of stopRecording and the next call of
\* startRecording.
StopRecordingReleasesAll ==
  /\ ev.op = "stopRecording" => (liveTracks = {} /\ liveProcs = {})
  /\ ev.op \in {"frameSent", "sendFailed"} => ~quiet

\* C8: a frame delivered to onaudioprocess goes to sendRealtimeInput only if
\* isRecording is true at that moment; otherwise it is dropped.
NoSendOutsideRecording ==
  [][sentCount' # sentCount => isRecording]_vars

\* a frame has gone to sendRealtimeInput
FrameSent ==
  ev.op = "frameSent" /\ sentCount > 0

\* C9: when an onerror or onclose callback has been handled, isRecording is
\* false and the capture resources are released.
TransportEventStopsRecording ==
  ev.op \in {"onerror", "onclose"} =>
    (~isRecording /\ liveTracks = {} /\ liveProcs = {})

\* the steps that run a message, error or close callback of session ev.sess
CallbackOps ==
  {"chunkArrived", "chunkStarted", "interrupted", "decodeFailed", "onerror",
   "onclose"}

\* C10: once reset() has been called, a callback of a session other than the
\* most recently created one changes neither the active-source set, the
\* cursor, status nor error.
StaleCallbacksIgnored ==
  [][(resets > 0 /\ ev'.op \in CallbackOps /\ ev'.sess # NumSessions) =>
       UNCHANGED <<sources, nextStartTime, status, error>>]_vars

\* C11: when a connect attempted by the initial start-up or by reset() fails,
\* then, once that operation has finished, the error notification is set and
\* no status is shown.
ConnectFailureStaysVisible ==
  [][\A c \in connecting :
       (/\ c \notin connecting'
        /\ ev'.op = "connectFailed"
        /\ c.caller \in {"init", "reset"})
         => (error' # "" /\ status' = "")]_vars

\* C12: when the capture callback has handled a throwing sendRealtimeInput,
\* isRecording is false, the capture fields are released and the error
\* notification is set.
SendFailureStaysVisible ==
  ev.op = "sendFailed" =>
    /\ ~isRecording
    /\ mediaStream = 0 /\ sourceNode = 0 /\ scriptProcessorNode = 0
    /\ error # ""

\* C13: when startRecording has handled a rejected getUserMedia, isRecording
\* is false, no stream, source node or script processor is retained, and the
\* error notification is set.
MicrophoneFailureSurfaced ==
  ev.op = "microphoneDenied" =>
    /\ ~isRecording
    /\ mediaStream = 0 /\ sourceNode = 0 /\ scriptProcessorNode = 0
    /\ error # ""

\* C14: a frame goes to sendRealtimeInput only on a session that is open, and
\* the controller is recording only while this.session is an open session.
SendOnlyOnOpenSession ==
  /\ ev.op \in {"frameSent", "sendFailed"} =>
       (ev.sess # 0 /\ sessState[ev.sess] = "open")
  /\ isRecording => (session # 0 /\ sessState[session] = "open")

\* every reset() call made so far has returned
ResetReturned ==
  /\ resets > 0
  /\ closing = {}
  /\ \A c \in connecting : c.caller # "reset"

\* C15: once reset() has returned, and as long as startRecording has not been
\* called since that reset began, isRecording is false and no frame goes to
\* sendRealtimeInput, also when a startRecording call made before the reset
\* was still awaiting the microphone.
ResetLeavesNotRecording ==
  (ResetReturned /\ ~startAfterReset) =>
    (~isRecording /\ ev.op \notin {"frameSent", "sendFailed"})

\* C16: a reset() that has called session.close() gets past it, whether
\* close() returned or threw; and the step of reset() after the close (or the
\* whole of reset() when there is no session) stops every active source,
\* empties the active set, zeroes the cursor, drops this.session and starts a
\* connect.
ResetTeardownCompletes ==
  /\ [][((\E r \in closing : r \notin closing')
           \/ (ev'.op = "reset" /\ session = 0)) =>
          /\ sources' = {}
          /\ sources \subseteq stopped'
          /\ nextStartTime' = 0
          /\ session' = 0
          /\ \E c \in connecting' \ connecting : c.caller = "reset"]_vars
  /\ \A id \in 1..MaxSessions :
       (\E r \in closing : r.id = id) ~> ~(\E r \in closing : r.id = id)

\* a reset whose close() threw (the session is still open) has stopped the
\* sources that were playing; no interrupted message was ever delivered
ResetAfterThrowingClose ==
  /\ ev.op = "resetClosed"
  /\ sessState[ev.sess] = "open"
  /\ intrSeqs = {}
  /\ stopped # {}
  /\ sources = {} /\ nextStartTime = 0 /\ session = 0

\* C17: every chunk that is started has the start time it has in the run in
\* which the malformed chunks never arrive, and the step in which a decode
\* fails adds no source and changes neither the session nor isRecording.
MalformedChunkLeavesNoTrace ==
  /\ [](\A i \in DOMAIN started : started[i].when = started[i].ref)
  /\ [][ev'.op = "decodeFailed" =>
          UNCHANGED <<sources, started, session, sessState, isRecording>>]_vars

\* C18: when the handling of a message that carries the interrupted flag ends,
\* with or without an audio part, well-formed or not, every source of the
\* active set has been stopped, the set is empty and the cursor is 0.
InterruptionUnconditional ==
  [][(\/ ev'.op = "interrupted"
      \/ \E p \in decoding : p.interrupted /\ p \notin decoding') =>
       /\ sources' = {}
       /\ sources \subseteq stopped'
       /\ nextStartTime' = 0]_vars

\* the controller is not recording and holds no capture resource
Idle ==
  ~isRecording /\ mediaStream = 0 /\ sourceNode = 0 /\ scriptProcessorNode = 0

\* C19: stopRecording called on an idle controller changes nothing, calling it
\* twice gives the state that calling it once gives, and a call never touches
\* the session or the playback scheduler.
StopRecordingIdempotent ==
  /\ [](/\ Idle => stopRecording(Cap) = Cap
        /\ stopRecording(stopRecording(Cap)) = stopRecording(Cap))
  /\ [][ev'.op = "stopRecording" =>
          /\ UNCHANGED <<session, sessState, nextStartTime, sources>>
          /\ Idle => UNCHANGED <<isRecording, status, error>>]_vars

\* stopRecording has been called on an idle controller whose notification was
\* "connected", and the notification is still that
IdleStopRecording ==
  /\ ev.op = "stopRecording"
  /\ Idle
  /\ status = "connected"

\* C20: a sendRealtimeInput({text}) that fails in sendAiTextMessage sets the
\* error notification and leaves isRecording, this.session, the active-source
\* set and the cursor as they were; with no session the text is dropped and no
\* field changes.
TextFailureNonFatal ==
  [][/\ ev'.op = "textSendFailed" =>
          /\ error' # ""
          /\ UNCHANGED <<isRecording, session, sources, nextStartTime>>
     /\ ev'.op = "textDropped" =>
          UNCHANGED <<playbackVars, sessionVars, captureVars, noticeVars>>]_vars

\* a text send failed while the controller was recording and a chunk playing
TextFailedWhileRecording ==
  /\ ev.op = "textSendFailed"
  /\ error = "textSendFailed"
  /\ isRecording
  /\ sources # {}

\* C21: a connect is started only by a step of reset() or by a startRecording
\* call made while this.session is unset; the onerror and onclose callbacks
\* start none.
NoAutomaticReconnect ==
  [][/\ connecting' \ connecting # {} =>
          \/ ev'.op \in {"reset", "resetClosed"}
          \/ ev'.op = "startRecording" /\ session = 0
     /\ ev'.op \in {"onerror", "onclose"} =>
          (connecting' = connecting /\ session' = session)]_vars

\* the current session has closed and no connect is outstanding
ClosedAndNotReconnecting ==
  /\ ev.op = "onclose"
  /\ session = ev.sess
  /\ connecting = {}

\* the steps that handle an interrupted message or belong to reset()
CursorResetOps == {"interrupted", "reset", "resetClosed"}

\* C22: a step that is neither the handling of an interrupted message nor a
\* step of reset() does not lower the cursor, and the cursor is written only
\* by the steps that handle a chunk, an interruption or reset().
CursorMonotone ==
  [][/\ ev'.op \notin CursorResetOps => nextStartTime' >= nextStartTime
     /\ nextStartTime' # nextStartTime =>
          ev'.op \in CursorResetOps \cup {"chunkArrived", "chunkStarted"}]_vars

\* a chunk arrived with the output clock past the cursor and raised it, after
\* a reset had zeroed it
CursorRaisedAfterReset ==
  /\ ev.op = "chunkArrived"
  /\ resets > 0
  /\ nextStartTime = clock
  /\ clock > 0

\* C23: the active set holds started sources that were not stopped; a source
\* enters it only in the step that starts it, and every chunk started without
\* an interruption in the same message enters it; a source leaves it only on
\* its 'ended' event, its playback over, or stopped by an interruption or a
\* reset; and a source whose playback is over eventually leaves the set.
ActiveSetExact ==
  /\ [](sources \cap stopped = {} /\ sources \subseteq DOMAIN started)
  /\ [][/\ sources' \ sources \subseteq {Len(started')}
        /\ sources' \ sources # {} => Len(started') = Len(started) + 1
        /\ ev'.op = "chunkStarted" => Len(started') \in sources'
        /\ \A i \in sources \ sources' :
             \/ ev'.op = "ended" /\ clock >= End(started[i]) /\ i \notin stopped'
             \/ ev'.op \in CursorResetOps /\ i \in stopped']_vars
  /\ \A i \in 1..MaxMsgs :
       (i \in sources /\ clock >= End(started[i])) ~> (i \notin sources)

\* a source has left the set on its 'ended' event while another, started
\* later, is still in it
EndedLeavesLaterSource ==
  /\ ev.op = "ended"
  /\ stopped = {}
  /\ Len(started) = 2
  /\ sources = {2}

AtMostOneLiveSession ==
  Cardinality({s \in 1..MaxSessions : sessState[s] = "open"}) <= 1

\* C26: at most one microphone stream has unstopped tracks and at most one
\* script processor has a live onaudioprocess handler.
AtMostOneCapturePipeline ==
  /\ Cardinality(liveTracks) <= 1
  /\ Cardinality(liveProcs) <= 1

\* C27: at most one of the status and the error notification is non-empty.
StatusErrorExclusive == ~(status # "" /\ error # "")

\* a unit was opened and the game's first text failed to send: the error
\* replaced the status handleUnitClick had just written
ErrorReplacedStartingStatus ==
  /\ ev.op = "unitClick"
  /\ currentView = "game"
  /\ error = "textSendFailed"
  /\ status = ""

\* C28: from fresh progress, every unit keeps
\* 0 <= correctInCurrentSession <= attemptedInCurrentSession
\*   <= totalProblemsInSession.
SessionCountersBounded ==
  \A u \in Units :
    /\ 0 <= studentProgress[u].correct
    /\ studentProgress[u].correct <= studentProgress[u].attempted
    /\ studentProgress[u].attempted <= totalProblemsInSession

\* the last attempt of a session was a wrong answer and was counted
LastAttemptCounted ==
  /\ ev.op = "answer"
  /\ ~game.isCorrect
  /\ activeUnitId # 0
  /\ studentProgress[activeUnitId].attempted = totalProblemsInSession
  /\ studentProgress[activeUnitId].correct < problemsToPass

\* C29, first part: a unit's status never moves back, and a unit becomes
\* completed only in a step that leaves its correct answers at problemsToPass
\* or more and its attempts at totalProblemsInSession or more.
StatusRank(st) == CASE st = "locked" -> 0 [] st = "unlocked" -> 1 [] OTHER -> 2

StatusStep ==
  \A u \in Units :
    /\ StatusRank(studentProgress'[u].status)
         >= StatusRank(studentProgress[u].status)
    /\ (studentProgress[u].status # "completed"
          /\ studentProgress'[u].status = "completed")
        => /\ studentProgress'[u].correct >= problemsToPass
           /\ studentProgress'[u].attempted >= totalProblemsInSession

\* C29, second part: a unit other than the first is non-locked only if the
\* unit before it is completed.
UnlockedAfterCompletion ==
  \A u \in Units \ {1} :
    studentProgress[u].status # "locked"
      => studentProgress[u - 1].status = "completed"

\* C29: unit status only moves forward and unlocking follows completion.
StatusForwardOnly == [][StatusStep]_vars /\ []UnlockedAfterCompletion

\* the first unit has just been completed and the second one unlocked
SecondUnitUnlocked ==
  /\ ev.op = "answer"
  /\ studentProgress[1].status = "completed"
  /\ studentProgress[1].attempted = totalProblemsInSession
  /\ studentProgress[2].status = "unlocked"

====
